---- MODULE Spec2Model ----
(***************************************************************************)
(* The ring-buffer channel of snakefish (src/src/channel.cpp): a fixed     *)
(* capacity circular byte buffer in shared memory, two process-shared      *)
(* semaphores (lock, n_unread) and the atomics start, end and full.        *)
(* Sender and receiver processes run send_bytes and receive_bytes step by  *)
(* step; each memcpy is computed offset by offset, exactly as the source   *)
(* sizes it.                                                               *)
(***************************************************************************)
EXTENDS Integers, Sequences, FiniteSets, TLC

\* ------------------------------------------------------------- bounds ----
\* size of the data region handed to channel::channel
Capacity == 18
\* total number of send_bytes calls in a behaviour
MaxSends == 3
\* total number of receive_bytes calls in a behaviour
MaxRecvs == 3
\* the larger of the two semaphore limits (SEM_VALUE_MAX) a behaviour may run under
SemValueMax == 3
\* number of buffer instances a behaviour may construct or move into
MaxBuffers == 3
\* number of blocks a behaviour may allocate
MaxBlocks == 2

\* ---------------------------------------------------------- constants ----
\* sizeof(size_t): the width of the length prefix
size_t_size == 8
\* first value treated as "larger than any mapping": 2^24
Huge == 16777216

Senders == {"s1"}
Receivers == {"r1", "r2"}

capacity == Capacity
Offsets == 0..(capacity - 1)

\* payload lengths a caller passes: empty, two short ones, and the largest
\* that fits an empty buffer
Lens == {0, 1, 3, capacity - size_t_size}

\* contents of the size_t_size bytes that follow a caller's buffer in memory:
\* all zero, a 3 in the first byte, or a 2 in the last byte
Beyond == {[i \in 1..size_t_size |-> 0],
           [i \in 1..size_t_size |-> IF i = 1 THEN 3 ELSE 0],
           [i \in 1..size_t_size |-> IF i = size_t_size THEN 2 ELSE 0]}

\* the payload of the k-th send_bytes call: len bytes no other call sends
Payload(k, len) == [i \in 1..len |-> 16 * k + i]

\* what a receive returns when it read outside the data region
Junk == <<-1>>

VARIABLES
  shared_mem,  \* the data region: byte at each offset
  start,       \* read offset (head)
  end,         \* write offset (tail)
  full,        \* disambiguates start = end
  lock,        \* count of the mutex semaphore (1 = free)
  n_unread,    \* count of the readiness semaphore
  sem_max,     \* the platform's SEM_VALUE_MAX
  snd,         \* per sender: position and locals of send_bytes
  rcv,         \* per receiver: position and locals of receive_bytes
  log,         \* history: sends and receives in critical-section order
  nsend,       \* send_bytes calls made so far
  nrecv,       \* receive_bytes calls made so far
  bufs,        \* per buffer instance: its lifetime and its members
  blocks,      \* per allocated block: how many times it was released
  aborted      \* the process using the buffers was aborted

vars == <<shared_mem, start, end, full, lock, n_unread, sem_max, snd, rcv,
          log, nsend, nrecv, bufs, blocks, aborted>>

chan == <<shared_mem, start, end, full>>

\* the state of the buffer instances of a process and of its heap
owned == <<bufs, blocks, aborted>>

\* the variables of the channel and of the processes using it
channel == <<shared_mem, start, end, full, lock, n_unread, sem_max, snd, rcv,
             log, nsend, nrecv>>

\* ------------------------------------------------------------ helpers ----

\* little-endian encoding of a size_t (values below 256 * 256 * 256)
EncodeLen(len) ==
  [i \in 1..size_t_size |->
     IF i = 1 THEN len % 256
     ELSE IF i = 2 THEN (len \div 256) % 256
     ELSE IF i = 3 THEN (len \div 65536) % 256
     ELSE 0]

\* the size_t read back from its bytes; Huge when it does not fit 24 bits
DecodeLen(b) ==
  IF \E i \in 4..size_t_size : b[i] # 0
    THEN Huge
    ELSE b[1] + 256 * b[2] + 65536 * b[3]

\* memcpy(shared_mem + at, src, count): the bytes src[1..count] land at
\* at .. at + count - 1; offsets outside the region are not part of it
MemcpyIn(mem, at, src, count) ==
  [o \in DOMAIN mem |->
     IF o >= at /\ o < at + count THEN src[o - at + 1] ELSE mem[o]]

\* memcpy(dst, shared_mem + at, count) for a range inside the region
MemcpyOut(mem, at, count) == [i \in 1..count |-> mem[at + i - 1]]

\* sem_post: fails when the count is at its maximum (spec 4.2)
CanPost(count, max) == count < max

\* sem_wait / sem_trywait succeed when the count is positive (spec 4.2)
CanWait(count) == count > 0

IdleSnd == [pc |-> "idle", res |-> "none", bytes |-> <<>>, len |-> 0, n |-> 0,
            tail |-> 0, new_end |-> 0, available_space |-> 0]
IdleRcv == [pc |-> "idle", res |-> "none", block |-> FALSE, head |-> 0,
            new_start |-> 0, len |-> 0, buf |-> <<>>]

\* the buffer instances of a process
Buffers == 1..MaxBuffers

\* enum buffer_type
buffer_type == {"MALLOC", "MMAP"}

\* an instance that does not exist yet
NoBuffer == [life |-> "none", buf |-> 0, len |-> 0, type |-> "MALLOC"]

\* channel::channel: offsets zero, not full, mutex free, nothing unread
Init ==
  /\ shared_mem = [o \in Offsets |-> 0]
  /\ start = 0
  /\ end = 0
  /\ full = FALSE
  /\ lock = 1
  /\ n_unread = 0
  /\ sem_max \in {1, SemValueMax}
  /\ snd = [p \in Senders |-> IdleSnd]
  /\ rcv = [p \in Receivers |-> IdleRcv]
  /\ log = <<>>
  /\ nsend = 0
  /\ nrecv = 0
  /\ bufs = [o \in Buffers |-> NoBuffer]
  /\ blocks = <<>>
  /\ aborted = FALSE

\* ------------------------------------------------------- send_bytes ----

\* AvailableSpace without the test of full: head = tail always reads as empty
AvailableSpaceIgnoresFull(head, tail, isfull) ==
  IF head < tail THEN capacity - (tail - head)
  ELSE IF head > tail THEN head - tail
  ELSE capacity

\* the space computation of send_bytes from head, tail and full
AvailableSpace(head, tail, isfull) ==
  IF head < tail THEN capacity - (tail - head)
  ELSE IF head > tail THEN head - tail
  ELSE IF ~isfull THEN capacity
  ELSE 0

\* SendCall without the early return: a call with len == 0 goes on to frame
\* an empty payload
SendCallFramesEmpty(p) ==
  /\ snd[p].pc = "idle"
  /\ nsend < MaxSends
  /\ \E len \in Lens :
       snd' = [snd EXCEPT ![p] =
                 [IdleSnd EXCEPT !.pc = "acquire",
                                 !.bytes = Payload(nsend + 1, len),
                                 !.len = len]]
  /\ nsend' = nsend + 1
  /\ UNCHANGED <<chan, lock, n_unread, sem_max, rcv, log, nrecv, owned>>

\* send_bytes is entered; len == 0 returns at once
SendCall(p) ==
  /\ snd[p].pc = "idle"
  /\ nsend < MaxSends
  /\ \E len \in Lens :
       snd' = [snd EXCEPT ![p] =
                 IF len = 0
                   THEN [IdleSnd EXCEPT !.res = "noop"]
                   ELSE [IdleSnd EXCEPT !.pc = "acquire",
                                        !.bytes = Payload(nsend + 1, len),
                                        !.len = len]]
  /\ nsend' = nsend + 1
  /\ UNCHANGED <<chan, lock, n_unread, sem_max, rcv, log, nrecv, owned>>

\* SendAcquire that does not wait for the mutex: it goes on whether the
\* mutex is free or not
SendAcquireNoWait(p) ==
  /\ snd[p].pc = "acquire"
  /\ lock' = IF CanWait(lock) THEN lock - 1 ELSE lock
  /\ snd' = [snd EXCEPT ![p].pc = "check"]
  /\ UNCHANGED <<chan, n_unread, sem_max, rcv, log, nsend, nrecv, owned>>

\* acquire_lock(): wait on the mutex semaphore
SendAcquire(p) ==
  /\ snd[p].pc = "acquire"
  /\ CanWait(lock)
  /\ lock' = lock - 1
  /\ snd' = [snd EXCEPT ![p].pc = "check"]
  /\ UNCHANGED <<chan, n_unread, sem_max, rcv, log, nsend, nrecv, owned>>

\* SendCheck that waits for space instead of failing: it proceeds only once
\* the frame fits
SendCheckWaits(p) ==
  /\ snd[p].pc = "check"
  /\ size_t_size + snd[p].len <= AvailableSpace(start, end, full)
  /\ lock' = lock
  /\ snd' = [snd EXCEPT ![p].pc = "copy_len",
                        ![p].n = size_t_size + snd[p].len,
                        ![p].tail = end,
                        ![p].available_space =
                          AvailableSpace(start, end, full)]
  /\ UNCHANGED <<chan, n_unread, sem_max, rcv, log, nsend, nrecv, owned>>

\* "ensure that buffer is large enough": n > available_space releases the
\* mutex and throws std::overflow_error
SendCheck(p) ==
  /\ snd[p].pc = "check"
  /\ LET n == size_t_size + snd[p].len
         head == start
         tail == end
         available_space == AvailableSpace(head, tail, full)
     IN IF n > available_space
          THEN /\ lock' = lock + 1
               /\ snd' = [snd EXCEPT ![p] =
                            [IdleSnd EXCEPT !.res = "overflow_error"]]
          ELSE /\ lock' = lock
               /\ snd' = [snd EXCEPT ![p].pc = "copy_len",
                                     ![p].n = n,
                                     ![p].tail = tail,
                                     ![p].available_space = available_space]
  /\ UNCHANGED <<chan, n_unread, sem_max, rcv, log, nsend, nrecv, owned>>

\* "copy the length into shared buffer"
WriteLen(mem, tail, len) ==
  LET len_bytes == EncodeLen(len)
      new_end == (tail + size_t_size) % capacity
  IN IF new_end > tail
       THEN MemcpyIn(mem, tail, len_bytes, size_t_size)
       ELSE LET first_half_len == capacity - tail
                second_half_len == size_t_size - first_half_len
            IN MemcpyIn(MemcpyIn(mem, tail, len_bytes, first_half_len),
                        0,
                        [i \in 1..second_half_len |->
                           len_bytes[first_half_len + i]],
                        second_half_len)

SendCopyLen(p) ==
  /\ snd[p].pc = "copy_len"
  /\ shared_mem' = WriteLen(shared_mem, snd[p].tail, snd[p].len)
  /\ snd' = [snd EXCEPT ![p].pc = "copy_bytes",
                        ![p].new_end = (snd[p].tail + size_t_size) % capacity]
  /\ UNCHANGED <<start, end, full, lock, n_unread, sem_max, rcv, log, nsend,
                 nrecv, owned>>

\* the number of bytes the non-wrapping payload memcpy is given: n, the
\* frame size, not len
PayloadCopyCount(len, n) == n

\* "copy the bytes into shared buffer", tail already set to the payload's
\* first offset; src is the caller's buffer followed by the memory after it
WriteBytes(mem, tail, src, len, n) ==
  LET new_end == (tail + len) % capacity
  IN IF new_end > tail
       THEN MemcpyIn(mem, tail, src, PayloadCopyCount(len, n))
       ELSE LET first_half_len == capacity - tail
                second_half_len == len - first_half_len
            IN MemcpyIn(MemcpyIn(mem, tail, src, first_half_len),
                        0,
                        [i \in 1..second_half_len |-> src[first_half_len + i]],
                        second_half_len)

\* whether the payload copy takes the "no wrapping" branch
PayloadNoWrap(tail, len) == (tail + len) % capacity > tail

\* the payload copy.  In the no-wrapping branch memcpy reads n bytes from a
\* buffer of len bytes: the extra size_t_size bytes are whatever follows the
\* caller's buffer (any member of Beyond), and the bytes it writes past the
\* end of the region land outside the channel's state.
SendCopyBytes(p) ==
  /\ snd[p].pc = "copy_bytes"
  /\ LET tail == snd[p].new_end
         new_end == (tail + snd[p].len) % capacity
     IN /\ \E g \in Beyond :
             shared_mem' = WriteBytes(shared_mem, tail, snd[p].bytes \o g,
                                      snd[p].len, snd[p].n)
        /\ snd' = [snd EXCEPT ![p].pc = "update",
                              ![p].tail = tail,
                              ![p].new_end = new_end]
  /\ UNCHANGED <<start, end, full, lock, n_unread, sem_max, rcv, log, nsend,
                 nrecv, owned>>

\* the other outcome of that out-of-bounds memcpy: the process is killed by
\* the fault, inside the critical section
SendCopyBytesFault(p) ==
  /\ snd[p].pc = "copy_bytes"
  /\ PayloadNoWrap(snd[p].new_end, snd[p].len)
  /\ PayloadCopyCount(snd[p].len, snd[p].n) > snd[p].len
  /\ snd' = [snd EXCEPT ![p].pc = "crashed"]
  /\ UNCHANGED <<chan, lock, n_unread, sem_max, rcv, log, nsend, nrecv,
                 owned>>

\* "update metadata"
SendUpdateMeta(p) ==
  /\ snd[p].pc = "update"
  /\ full' = IF snd[p].n = snd[p].available_space THEN TRUE ELSE full
  /\ end' = snd[p].new_end
  /\ snd' = [snd EXCEPT ![p].pc = "post"]
  /\ UNCHANGED <<shared_mem, start, lock, n_unread, sem_max, rcv, log, nsend,
                 nrecv, owned>>

\* history entry of a send whose bytes and metadata are written: who, what,
\* the offset its frame starts at, the space it found, whether its post
\* succeeded
SendEvent(p, posted) ==
  [op |-> "send", by |-> p, bytes |-> snd[p].bytes,
   at |-> (snd[p].new_end + capacity - snd[p].n) % capacity,
   avail |-> snd[p].available_space, posted |-> posted]

\* SendPost with the failure of post swallowed: the send goes on to its
\* normal return
SendPostSwallowed(p) ==
  /\ snd[p].pc = "post"
  /\ n_unread' = IF CanPost(n_unread, sem_max) THEN n_unread + 1 ELSE n_unread
  /\ lock' = lock
  /\ snd' = [snd EXCEPT ![p].pc = "release"]
  /\ log' = Append(log, SendEvent(p, CanPost(n_unread, sem_max)))
  /\ UNCHANGED <<chan, sem_max, rcv, nsend, nrecv, owned>>

\* n_unread.post(); a failed post releases the mutex and rethrows
SendPost(p) ==
  /\ snd[p].pc = "post"
  /\ IF CanPost(n_unread, sem_max)
       THEN /\ n_unread' = n_unread + 1
            /\ lock' = lock
            /\ snd' = [snd EXCEPT ![p].pc = "release"]
            /\ log' = Append(log, SendEvent(p, TRUE))
       ELSE /\ n_unread' = n_unread
            /\ lock' = lock + 1
            /\ snd' = [snd EXCEPT ![p] =
                         [IdleSnd EXCEPT !.res = "runtime_error"]]
            /\ log' = Append(log, SendEvent(p, FALSE))
  /\ UNCHANGED <<chan, sem_max, rcv, nsend, nrecv, owned>>

\* SendRelease without release_lock(): the send returns with the mutex held
SendReturnNoRelease(p) ==
  /\ snd[p].pc = "release"
  /\ lock' = lock
  /\ snd' = [snd EXCEPT ![p] = [IdleSnd EXCEPT !.res = "ok"]]
  /\ UNCHANGED <<chan, n_unread, sem_max, rcv, log, nsend, nrecv, owned>>

\* release_lock() and normal return
SendRelease(p) ==
  /\ snd[p].pc = "release"
  /\ lock' = lock + 1
  /\ snd' = [snd EXCEPT ![p] = [IdleSnd EXCEPT !.res = "ok"]]
  /\ UNCHANGED <<chan, n_unread, sem_max, rcv, log, nsend, nrecv, owned>>

\* ---------------------------------------------------- receive_bytes ----

\* receive_bytes(block) is entered
RecvCall(p) ==
  /\ rcv[p].pc = "idle"
  /\ nrecv < MaxRecvs
  /\ \E block \in BOOLEAN :
       rcv' = [rcv EXCEPT ![p] = [IdleRcv EXCEPT !.pc = "wait",
                                                 !.block = block]]
  /\ nrecv' = nrecv + 1
  /\ UNCHANGED <<chan, lock, n_unread, sem_max, snd, log, nsend, owned>>

\* RecvWait that does not suspend: it goes on whatever the count is
RecvWaitNoBlock(p) ==
  /\ rcv[p].pc = "wait"
  /\ rcv[p].block
  /\ n_unread' = IF CanWait(n_unread) THEN n_unread - 1 ELSE n_unread
  /\ rcv' = [rcv EXCEPT ![p].pc = "acquire"]
  /\ UNCHANGED <<chan, lock, sem_max, snd, log, nsend, nrecv, owned>>

\* block: n_unread.wait() suspends the process until the count is positive
RecvWait(p) ==
  /\ rcv[p].pc = "wait"
  /\ rcv[p].block
  /\ CanWait(n_unread)
  /\ n_unread' = n_unread - 1
  /\ rcv' = [rcv EXCEPT ![p].pc = "acquire"]
  /\ UNCHANGED <<chan, lock, sem_max, snd, log, nsend, nrecv, owned>>

\* RecvTryWait with the result of trywait ignored: the receive goes on
RecvTryWaitIgnored(p) ==
  /\ rcv[p].pc = "wait"
  /\ ~rcv[p].block
  /\ n_unread' = IF CanWait(n_unread) THEN n_unread - 1 ELSE n_unread
  /\ rcv' = [rcv EXCEPT ![p].pc = "acquire"]
  /\ UNCHANGED <<chan, lock, sem_max, snd, log, nsend, nrecv, owned>>

\* not block: n_unread.trywait(); on failure throw std::out_of_range
RecvTryWait(p) ==
  /\ rcv[p].pc = "wait"
  /\ ~rcv[p].block
  /\ IF CanWait(n_unread)
       THEN /\ n_unread' = n_unread - 1
            /\ rcv' = [rcv EXCEPT ![p].pc = "acquire"]
       ELSE /\ n_unread' = n_unread
            /\ rcv' = [rcv EXCEPT ![p] =
                         [IdleRcv EXCEPT !.res = "out_of_range"]]
  /\ UNCHANGED <<chan, lock, sem_max, snd, log, nsend, nrecv, owned>>

\* acquire_lock()
RecvAcquire(p) ==
  /\ rcv[p].pc = "acquire"
  /\ CanWait(lock)
  /\ lock' = lock - 1
  /\ rcv' = [rcv EXCEPT ![p].pc = "copy_len"]
  /\ UNCHANGED <<chan, n_unread, sem_max, snd, log, nsend, nrecv, owned>>

\* "get length of bytes": the size_t_size bytes at head, split at the end of
\* the region
ReadLen(mem, head) ==
  LET new_start == (head + size_t_size) % capacity
  IN IF new_start > head
       THEN MemcpyOut(mem, head, size_t_size)
       ELSE LET first_half_len == capacity - head
                second_half_len == size_t_size - first_half_len
            IN MemcpyOut(mem, head, first_half_len)
                 \o MemcpyOut(mem, 0, second_half_len)

RecvCopyLen(p) ==
  /\ rcv[p].pc = "copy_len"
  /\ LET head == start
     IN rcv' = [rcv EXCEPT ![p].pc = "copy_bytes",
                           ![p].head = head,
                           ![p].new_start = (head + size_t_size) % capacity,
                           ![p].len = DecodeLen(ReadLen(shared_mem, head))]
  /\ UNCHANGED <<chan, lock, n_unread, sem_max, snd, log, nsend, nrecv,
                 owned>>

\* whether the payload read takes the "no wrapping" branch
ReadNoWrap(head, len) == (head + len) % capacity > head

\* the payload read stays inside the region and inside the len-byte buffer
ReadInBounds(head, len) ==
  /\ len < Huge
  /\ IF ReadNoWrap(head, len)
       THEN head + len <= capacity
       ELSE /\ len >= capacity - head
            /\ len - (capacity - head) <= capacity

\* the payload read can neither complete nor return: the allocation or the
\* copy is of a size no mapping holds (len is Huge, or second_half_len
\* wrapped below zero)
ReadFatal(head, len) ==
  \/ len >= Huge
  \/ ~ReadNoWrap(head, len) /\ len < capacity - head

\* "get bytes", head already set to the payload's first offset
ReadBytes(mem, head, len) ==
  IF ReadNoWrap(head, len)
    THEN MemcpyOut(mem, head, len)
    ELSE LET first_half_len == capacity - head
             second_half_len == len - first_half_len
         IN MemcpyOut(mem, head, first_half_len)
              \o MemcpyOut(mem, 0, second_half_len)

\* the payload copy.  A read that leaves the region returns bytes that are
\* not the channel's (Junk).
RecvCopyBytes(p) ==
  /\ rcv[p].pc = "copy_bytes"
  /\ ~ReadFatal(rcv[p].new_start, rcv[p].len)
  /\ LET head == rcv[p].new_start
         len == rcv[p].len
     IN rcv' = [rcv EXCEPT ![p].pc = "update",
                           ![p].head = head,
                           ![p].new_start = (head + len) % capacity,
                           ![p].buf = IF ReadInBounds(head, len)
                                        THEN ReadBytes(shared_mem, head, len)
                                        ELSE Junk]
  /\ UNCHANGED <<chan, lock, n_unread, sem_max, snd, log, nsend, nrecv,
                 owned>>

\* the other outcome of a read outside the region: the process is killed
\* inside the critical section
RecvCopyBytesFault(p) ==
  /\ rcv[p].pc = "copy_bytes"
  /\ ~ReadInBounds(rcv[p].new_start, rcv[p].len)
  /\ rcv' = [rcv EXCEPT ![p].pc = "crashed"]
  /\ UNCHANGED <<chan, lock, n_unread, sem_max, snd, log, nsend, nrecv,
                 owned>>

\* history entry of a receive that stores its new head: who, the buffer it
\* returns, the offset it read the frame from
RecvEvent(p) ==
  [op |-> "recv", by |-> p, bytes |-> rcv[p].buf, at |-> start,
   avail |-> 0, posted |-> FALSE]

\* "update metadata"
RecvUpdateMeta(p) ==
  /\ rcv[p].pc = "update"
  /\ full' = FALSE
  /\ start' = rcv[p].new_start
  /\ rcv' = [rcv EXCEPT ![p].pc = "release"]
  /\ log' = Append(log, RecvEvent(p))
  /\ UNCHANGED <<shared_mem, end, lock, n_unread, sem_max, snd, nsend, nrecv,
                 owned>>

\* release_lock() and return buf
RecvRelease(p) ==
  /\ rcv[p].pc = "release"
  /\ lock' = lock + 1
  /\ rcv' = [rcv EXCEPT ![p] = [IdleRcv EXCEPT !.res = "ok"]]
  /\ UNCHANGED <<chan, n_unread, sem_max, snd, log, nsend, nrecv, owned>>

\* ----------------------------------------------------------- buffer ----

\* lengths a buffer is constructed with: a length prefix, a short payload
BufferLens == {size_t_size, 1}

\* buffer(len, type): a fresh block of len bytes, obtained as type says
BufferConstruct(o) ==
  /\ ~aborted
  /\ bufs[o].life = "none"
  /\ Len(blocks) < MaxBlocks
  /\ \E len \in BufferLens, type \in buffer_type :
       bufs' = [bufs EXCEPT ![o] = [life |-> "live", buf |-> Len(blocks) + 1,
                                    len |-> len, type |-> type]]
  /\ blocks' = Append(blocks, 0)
  /\ UNCHANGED <<aborted, channel>>

\* buffer(len, type) when the allocation fails: the process is aborted
BufferConstructAbort(o) ==
  /\ ~aborted
  /\ bufs[o].life = "none"
  /\ aborted' = TRUE
  /\ UNCHANGED <<bufs, blocks, channel>>

\* buffer(buffer &&t) = default: the new instance to takes the members of t
\* one by one; moving a pointer, a size_t or an enum copies it, and t keeps
\* what it had
BufferMove(to, t) ==
  /\ ~aborted
  /\ bufs[to].life = "none"
  /\ bufs[t].life = "live"
  /\ bufs' = [bufs EXCEPT ![to] = [life |-> "live", buf |-> bufs[t].buf,
                                   len |-> bufs[t].len,
                                   type |-> bufs[t].type]]
  /\ UNCHANGED <<blocks, aborted, channel>>

\* ~buffer(): the block is released by the mechanism of its type; releasing
\* a block that was already released either goes through or aborts the
\* process
BufferDestroy(o) ==
  /\ ~aborted
  /\ bufs[o].life = "live"
  /\ bufs' = [bufs EXCEPT ![o].life = "dead"]
  /\ \/ /\ blocks' = [blocks EXCEPT ![bufs[o].buf] = @ + 1]
        /\ aborted' = aborted
     \/ /\ blocks[bufs[o].buf] > 0
        /\ blocks' = blocks
        /\ aborted' = TRUE
  /\ UNCHANGED channel

\* ---------------------------------------------------- specification ----

\* one step of send_bytes by sender p
SendStep(p) ==
  \/ SendCall(p)
  \/ SendAcquire(p)
  \/ SendCheck(p)
  \/ SendCopyLen(p)
  \/ SendCopyBytes(p)
  \/ SendCopyBytesFault(p)
  \/ SendUpdateMeta(p)
  \/ SendPost(p)
  \/ SendRelease(p)

\* one step of receive_bytes by receiver p
RecvStep(p) ==
  \/ RecvCall(p)
  \/ RecvWait(p)
  \/ RecvTryWait(p)
  \/ RecvAcquire(p)
  \/ RecvCopyLen(p)
  \/ RecvCopyBytes(p)
  \/ RecvCopyBytesFault(p)
  \/ RecvUpdateMeta(p)
  \/ RecvRelease(p)

Next ==
  \/ \E p \in Senders : SendStep(p)
  \/ \E p \in Receivers : RecvStep(p)

Spec == Init /\ [][Next]_vars

\* every process that can take a step is eventually scheduled
FairSpec ==
  /\ Spec
  /\ \A p \in Senders : WF_vars(SendStep(p))
  /\ \A p \in Receivers : WF_vars(RecvStep(p))

\* construct, move and destroy buffer instances in any order
BufNext ==
  \E o \in Buffers :
    \/ BufferConstruct(o)
    \/ BufferConstructAbort(o)
    \/ \E t \in Buffers : BufferMove(o, t)
    \/ BufferDestroy(o)

BufSpec == Init /\ [][BufNext]_vars

\* ------------------------------------------------- history projections ----

\* the sends that returned normally, in critical-section order
sent == SelectSeq(log, LAMBDA e : e.op = "send" /\ e.posted)

\* the receives that stored a new head, in critical-section order
received == SelectSeq(log, LAMBDA e : e.op = "recv")

\* no send so far had its post refused
NoFailedPost == \A i \in DOMAIN log : log[i].op = "send" => log[i].posted

\* only receiver r1 has ever called receive_bytes
SingleReader == \A p \in Receivers \ {"r1"} : rcv[p] = IdleRcv

\* a frame written at offset at crosses the end of the region
Straddles(at, len) == at + size_t_size + len > capacity

\* ------------------------------------------------------------ claims ----

\* C1: with a single reader and every send's post accepted, the k-th receive
\* returns exactly the payload (same length, same bytes) of the k-th
\* successful send.
C1_FifoRoundTrip ==
  (SingleReader /\ NoFailedPost) =>
    \A k \in 1..Len(received) :
      /\ k <= Len(sent)
      /\ received[k].bytes = sent[k].bytes

\* C2: a frame whose length prefix, payload or both cross the end of the
\* region is read back, by the receive that reads at the offset it was
\* written at, with identical length and bytes.
C2_WrapRoundTrip ==
  NoFailedPost =>
    \A k \in 1..Len(received) :
      (/\ k <= Len(sent)
       /\ Straddles(sent[k].at, Len(sent[k].bytes))
       /\ received[k].at = sent[k].at)
      => received[k].bytes = sent[k].bytes

\* C3: a payload of capacity - 8 bytes sent into an empty buffer (head = tail,
\* not full, at any offset) is accepted, and the receive that follows returns
\* it with identical length and bytes.
C3_LargestFrameRoundTrip ==
  /\ \A p \in Senders :
       (/\ snd[p].pc = "check"
        /\ snd[p].len = capacity - size_t_size
        /\ start = end
        /\ ~full)
       => ENABLED (SendCheck(p) /\ snd'[p].pc = "copy_len")
  /\ NoFailedPost =>
       \A k \in 1..Len(received) :
         (/\ k <= Len(sent)
          /\ Len(sent[k].bytes) = capacity - size_t_size
          /\ sent[k].avail = capacity
          /\ received[k].at = sent[k].at)
         => received[k].bytes = sent[k].bytes

\* the free space the spec's section 4.3 defines from head, tail and full
SpaceLeft ==
  IF start < end THEN capacity - (end - start)
  ELSE IF start > end THEN start - end
  ELSE IF full THEN 0
  ELSE capacity

\* C4: a send whose frame (8 + len) exceeds the available space fails with
\* the overflow condition, leaves head, tail, full, the data region and the
\* readiness count unchanged, and has released the mutex.
C4_OverflowLeavesState ==
  [][\A p \in Senders :
       (/\ snd[p].pc = "check"
        /\ size_t_size + snd[p].len > SpaceLeft
        /\ snd'[p] # snd[p])
       => /\ snd'[p].pc = "idle"
          /\ snd'[p].res = "overflow_error"
          /\ shared_mem' = shared_mem
          /\ start' = start
          /\ end' = end
          /\ full' = full
          /\ n_unread' = n_unread
          /\ lock' = 1]_vars

\* a send has failed with the overflow condition while a frame is unread
C4_Witness ==
  \E p \in Senders :
    /\ snd[p].res = "overflow_error"
    /\ snd[p].pc = "idle"
    /\ n_unread > 0
    /\ lock = 1

\* C5: a non-blocking receive on a channel whose readiness count is zero
\* fails with the out-of-range condition, without taking the mutex and
\* without changing head, tail, full, the data region or the count.
C5_EmptyNonBlockingReceive ==
  [][\A p \in Receivers :
       (/\ rcv[p].pc = "wait"
        /\ ~rcv[p].block
        /\ n_unread = 0
        /\ rcv'[p] # rcv[p])
       => /\ rcv'[p].pc = "idle"
          /\ rcv'[p].res = "out_of_range"
          /\ shared_mem' = shared_mem
          /\ start' = start
          /\ end' = end
          /\ full' = full
          /\ n_unread' = n_unread
          /\ lock' = lock]_vars

\* a non-blocking receive has failed on an empty channel
C5_Witness ==
  \E p \in Receivers :
    /\ rcv[p].res = "out_of_range"
    /\ rcv[p].pc = "idle"
    /\ n_unread = 0

\* no send_bytes and no receive_bytes is in progress
Quiescent ==
  /\ \A p \in Senders : snd[p].pc = "idle"
  /\ \A p \in Receivers : rcv[p].pc = "idle"

\* the number of frames the region holds from offset h on, when its next
\* remaining bytes are a whole number of complete frames; -1 when they are not
RECURSIVE FramesFrom(_, _)
FramesFrom(h, remaining) ==
  IF remaining = 0 THEN 0
  ELSE LET len == DecodeLen(ReadLen(shared_mem, h))
           size == size_t_size + len
       IN IF len = 0 \/ len >= Huge \/ size > remaining THEN -1
          ELSE LET rest == FramesFrom((h + size) % capacity, remaining - size)
               IN IF rest < 0 THEN -1 ELSE 1 + rest

\* the complete frames buffered between head and tail
BufferedFrames == FramesFrom(start, capacity - SpaceLeft)

\* C6: at every quiescent point the readiness count equals the number of
\* complete frames buffered and not yet received, which equals the number of
\* successful sends minus the number of successful receives.
C6_CountIsBufferedFrames ==
  (Quiescent /\ NoFailedPost) =>
    /\ n_unread = BufferedFrames
    /\ n_unread = Len(sent) - Len(received)

\* the sizes (8 + payload length) of the frames of log[i + 1 .. j], summed
RECURSIVE SumSizes(_, _)
SumSizes(i, j) ==
  IF j <= i THEN 0
  ELSE size_t_size + Len(log[j].bytes) + SumSizes(i, j - 1)

\* log[i + 1 .. j] is a run of sends, the first into an empty buffer, whose
\* frames total exactly capacity bytes
FilledRun(i, j) ==
  /\ i < j
  /\ \A k \in (i + 1)..j : log[k].op = "send" /\ log[k].posted
  /\ log[i + 1].avail = capacity
  /\ SumSizes(i, j) = capacity

\* C7: after frames totalling exactly capacity bytes are sent with no receive
\* in between, full is true and the next send computes 0 bytes available;
\* after one receive from that state, full is false and the next send computes
\* exactly the size of the frame just removed.
C7_FullThenOneReceive ==
  NoFailedPost =>
    \A i \in 0..Len(log) :
      /\ FilledRun(i, Len(log))
           => full /\ AvailableSpace(start, end, full) = 0
      /\ (/\ FilledRun(i, Len(log) - 1)
          /\ log[Len(log)].op = "recv"
          /\ \A p \in Senders : snd[p].pc # "post")
           => /\ ~full
              /\ AvailableSpace(start, end, full)
                   = size_t_size + Len(log[i + 1].bytes)

\* every receiver has called receive_bytes
AllReceiversCalled == \A p \in Receivers : rcv[p] # IdleRcv

\* C8: with several receivers on the channel, every completed receive returns
\* one whole sent frame, and no sent frame is returned twice.
C8_EachFrameOnce ==
  (NoFailedPost /\ AllReceiversCalled) =>
    /\ \A j \in DOMAIN log :
         log[j].op = "recv" =>
           \E i \in 1..(j - 1) :
             log[i].op = "send" /\ log[i].bytes = log[j].bytes
    /\ \A j1, j2 \in DOMAIN log :
         (log[j1].op = "recv" /\ log[j2].op = "recv" /\ j1 < j2)
           => log[j1].bytes # log[j2].bytes

\* C9: send_bytes never waits for space: holding the mutex, a send whose
\* frame does not fit can take its next step at once and that step is the
\* overflow failure; a blocking receive on an empty channel can take no step.
C9_SendFailsReceiveWaits ==
  /\ \A p \in Senders :
       (snd[p].pc = "check" /\ size_t_size + snd[p].len > SpaceLeft)
       => /\ ENABLED SendStep(p)
          /\ ~ENABLED (SendStep(p)
                         /\ ~(snd'[p].pc = "idle"
                                /\ snd'[p].res = "overflow_error"))
  /\ \A p \in Receivers :
       (rcv[p].pc = "wait" /\ rcv[p].block /\ n_unread = 0)
       => ~ENABLED RecvStep(p)

\* a send that does not fit is about to fail while a blocking receive waits
\* on the empty readiness semaphore
C9_Witness ==
  /\ \E p \in Senders :
       snd[p].pc = "check" /\ size_t_size + snd[p].len > SpaceLeft
  /\ \E p \in Receivers :
       rcv[p].pc = "wait" /\ rcv[p].block /\ n_unread = 0

\* some process was killed inside send_bytes or receive_bytes
SomeoneDied ==
  \/ \E p \in Senders : snd[p].pc = "crashed"
  \/ \E p \in Receivers : rcv[p].pc = "crashed"

\* the receives that have got past the readiness semaphore
PastWait ==
  {p \in Receivers :
     rcv[p].pc \in {"acquire", "copy_len", "copy_bytes", "update", "crashed"}}

\* C10: a blocking receive gets past the readiness semaphore only on a count
\* some send has posted (receives past it never outnumber the posts), and,
\* with every process scheduled fairly and none dying, a blocking receive
\* that finds a positive count returns unless another receiver takes the
\* count first.
C10_BlockingReceive ==
  /\ [](Cardinality(PastWait) + Len(received) <= Len(sent))
  /\ \A p \in Receivers :
       (rcv[p].pc = "wait" /\ rcv[p].block /\ n_unread > 0)
         ~> (\/ rcv[p].pc = "idle" /\ rcv[p].res = "ok"
             \/ rcv[p].pc = "wait" /\ n_unread = 0
             \/ SomeoneDied)

\* a blocking receive has just got past the readiness semaphore, on a count a
\* send posted
C10_Witness ==
  \E p \in Receivers :
    /\ rcv[p].pc = "acquire"
    /\ rcv[p].block
    /\ Len(sent) > 0

\* the offset the frame of the send in progress by p starts at, once its
\* payload is copied
FrameAt(p) == (snd[p].new_end + capacity - snd[p].n) % capacity

\* C11: when the post of the readiness semaphore fails inside send_bytes, the
\* send ends with the failure (runtime_error) and the mutex free; tail is
\* already at its advanced value (frame start + 8 + len) and stays there,
\* full is already set when the frame took all the space and stays as it is,
\* the payload stays in the data region, and the readiness count is not
\* incremented.
C11_PostFailure ==
  [][\A p \in Senders :
       (/\ snd[p].pc = "post"
        /\ ~CanPost(n_unread, sem_max)
        /\ snd'[p] # snd[p])
       => /\ snd'[p].pc = "idle"
          /\ snd'[p].res = "runtime_error"
          /\ lock' = 1
          /\ end = (FrameAt(p) + size_t_size + snd[p].len) % capacity
          /\ end' = end
          /\ (snd[p].n = snd[p].available_space) => full
          /\ full' = full
          /\ start' = start
          /\ shared_mem' = shared_mem
          /\ ReadBytes(shared_mem, (FrameAt(p) + size_t_size) % capacity,
                       snd[p].len) = snd[p].bytes
          /\ n_unread' = n_unread]_vars

\* a send has just failed at the post: its frame lies between head and tail
\* while the readiness count, at its maximum, does not count it
C11_Witness ==
  \E p \in Senders :
    /\ snd[p].pc = "idle"
    /\ snd[p].res = "runtime_error"
    /\ lock = 1
    /\ Len(log) > 0
    /\ log[Len(log)].op = "send"
    /\ ~log[Len(log)].posted
    /\ n_unread = sem_max
    /\ SpaceLeft <= capacity - 2 * (size_t_size + 1)

\* the instances that refer to block b and have not been destroyed
Owners(b) == {o \in Buffers : bufs[o].life = "live" /\ bufs[o].buf = b}

\* C12: an allocated block has exactly one live owner until it is released
\* (a move leaves the moved-from instance without the block), and once every
\* instance is destroyed each block has been released exactly once.
C12_SingleOwnerReleasedOnce ==
  /\ \A b \in DOMAIN blocks :
       /\ blocks[b] = 0 => Cardinality(Owners(b)) = 1
       /\ blocks[b] <= 1
  /\ (~aborted /\ \A o \in Buffers : bufs[o].life # "live")
       => \A b \in DOMAIN blocks : blocks[b] = 1

\* C13: a call of send_bytes with len == 0 returns at once: it does not
\* acquire the mutex, changes none of head, tail, full and the data region,
\* and does not post the readiness semaphore; and no receive ever returns an
\* empty payload.
C13_EmptySendIsNoOp ==
  /\ [][\A p \in Senders :
          (/\ snd[p].pc = "idle"
           /\ nsend' = nsend + 1
           /\ snd'[p].len = 0)
          => /\ snd'[p].pc = "idle"
             /\ snd'[p].res = "noop"
             /\ lock' = lock
             /\ shared_mem' = shared_mem
             /\ start' = start
             /\ end' = end
             /\ full' = full
             /\ n_unread' = n_unread
             /\ log' = log]_vars
  /\ [](\A j \in DOMAIN log : log[j].op = "recv" => Len(log[j].bytes) > 0)

\* a send of no bytes has returned while a frame was buffered, after a
\* receive completed
C13_Witness ==
  \E p \in Senders :
    /\ snd[p].pc = "idle"
    /\ snd[p].res = "noop"
    /\ n_unread > 0
    /\ Len(received) > 0

\* the count offsets from at on, modulo capacity
FrameOffsets(at, count) == {(at + i) % capacity : i \in 0..(count - 1)}

\* the number of bytes the payload copy reads from the caller's buffer
SourceBytesRead(tail, len, n) ==
  IF PayloadNoWrap(tail, len) THEN PayloadCopyCount(len, n) ELSE len

\* C14: a send writes the 8-byte length at tail .. tail + 7 (mod capacity)
\* and len payload bytes at the len offsets that follow (mod capacity), and
\* leaves every other byte of the data region as it was; it reads no byte
\* beyond the len bytes of the caller's buffer.
C14_WritesExactlyFrame ==
  [][\A p \in Senders :
       /\ (snd[p].pc = "copy_len" /\ snd'[p].pc = "copy_bytes")
            => \A o \in Offsets :
                 o \notin FrameOffsets(snd[p].tail, size_t_size)
                   => shared_mem'[o] = shared_mem[o]
       /\ (snd[p].pc = "copy_bytes" /\ snd'[p].pc = "update")
            => /\ \A o \in Offsets :
                    o \notin FrameOffsets(snd[p].new_end, snd[p].len)
                      => shared_mem'[o] = shared_mem[o]
               /\ \A i \in 1..snd[p].len :
                    shared_mem'[(snd[p].new_end + i - 1) % capacity]
                      = snd[p].bytes[i]
               /\ SourceBytesRead(snd[p].new_end, snd[p].len, snd[p].n)
                    <= snd[p].len]_vars

\* the sends that wrote a frame and stored the new tail, posted or not, in
\* critical-section order
written == SelectSeq(log, LAMBDA e : e.op = "send")

\* the sizes (8 + payload length) of the frames written after the first k,
\* summed
RECURSIVE BytesAfter(_)
BytesAfter(k) ==
  IF k >= Len(written) THEN 0
  ELSE size_t_size + Len(written[k + 1].bytes) + BytesAfter(k + 1)

\* the bytes the buffered unreceived frames occupy: each receive removed the
\* oldest frame written
Occupied == BytesAfter(Len(received))

\* no process is between acquire_lock() and release_lock()
NoCriticalSection ==
  /\ \A p \in Senders : snd[p].pc \in {"idle", "acquire"}
  /\ \A p \in Receivers : rcv[p].pc \in {"idle", "wait", "acquire"}

\* C15: whenever no send and no receive is inside its critical section, full
\* is true exactly when the buffered unreceived frames occupy capacity bytes,
\* and head = tail with full false means that no frame is buffered.
C15_FullIffCapacityUsed ==
  NoCriticalSection =>
    /\ full <=> (Occupied = capacity)
    /\ (start = end /\ ~full) => Occupied = 0

\* the data region holds, from offset at on, the whole frame of event e: the
\* 8-byte length of its payload, then its payload
HoldsFrame(at, e) ==
  /\ e.at = at
  /\ ReadLen(shared_mem, at) = EncodeLen(Len(e.bytes))
  /\ ReadBytes(shared_mem, (at + size_t_size) % capacity, Len(e.bytes))
       = e.bytes

\* a send is between its first write to the data region and its store of
\* the new tail
WriteInProgress ==
  \E p \in Senders : snd[p].pc \in {"copy_len", "copy_bytes", "update"}

\* C16: a receiver that has taken a count from the readiness semaphore and
\* then the mutex finds at head a complete frame, its 8-byte length followed
\* by that many payload bytes, as one earlier send wrote it, and no send is
\* writing a frame at that time.
C16_ReceiverFindsWholeFrame ==
  \A p \in Receivers :
    rcv[p].pc = "copy_len" =>
      /\ \E k \in DOMAIN written : HoldsFrame(start, written[k])
      /\ ~WriteInProgress

\* the processes between acquire_lock() and release_lock(), a process killed
\* there included
Holders ==
  {p \in Senders : snd[p].pc \in {"check", "copy_len", "copy_bytes", "update",
                                  "post", "release", "crashed"}}
    \cup {p \in Receivers : rcv[p].pc \in {"copy_len", "copy_bytes", "update",
                                           "release", "crashed"}}

\* C17: at most one process is between acquiring and releasing the mutex
\* (the mutex count is 0 exactly while one is), and every step that changes
\* the data region, head, tail or full is a step of the process that holds
\* the mutex.
C17_MutualExclusion ==
  /\ [](/\ Cardinality(Holders) <= 1
        /\ lock = 1 - Cardinality(Holders))
  /\ [][chan' # chan =>
          \E p \in Holders :
            \/ p \in Senders /\ snd'[p] # snd[p]
            \/ p \in Receivers /\ rcv'[p] # rcv[p]]_vars

\* a receiver is storing its metadata under the mutex while the sender and
\* the other receiver wait for the mutex
C17_Witness ==
  /\ lock = 0
  /\ \E p \in Senders : snd[p].pc = "acquire"
  /\ \E p, q \in Receivers :
       /\ rcv[p].pc = "update"
       /\ rcv[q].pc = "acquire"

\* C18: whenever no call is in progress, no post was refused and every
\* frame sent has been received, the buffer is empty: head = tail, full is
\* false and the readiness count is 0.
C18_DrainedIsEmpty ==
  (/\ Quiescent
   /\ NoFailedPost
   /\ Len(sent) > 0
   /\ Len(received) = Len(sent))
  => /\ start = end
     /\ ~full
     /\ n_unread = 0

\* the payload copy of send_bytes, with the cursor at tail, writes inside
\* the region
WriteInBounds(tail, len, n) ==
  IF PayloadNoWrap(tail, len)
    THEN tail + PayloadCopyCount(len, n) <= capacity
    ELSE /\ len >= capacity - tail
         /\ len - (capacity - tail) <= capacity

\* C19: head and tail lie in [0, capacity), and every offset the length and
\* payload copies of send_bytes write and those of receive_bytes read lies in
\* [0, capacity).
C19_OffsetsInRegion ==
  /\ start \in Offsets
  /\ end \in Offsets
  /\ \A p \in Senders :
       /\ snd[p].pc = "copy_len" => snd[p].tail \in Offsets
       /\ snd[p].pc = "copy_bytes"
            => /\ snd[p].new_end \in Offsets
               /\ WriteInBounds(snd[p].new_end, snd[p].len, snd[p].n)
  /\ \A p \in Receivers :
       rcv[p].pc = "copy_bytes"
         => /\ rcv[p].new_start \in Offsets
            /\ ReadInBounds(rcv[p].new_start, rcv[p].len)

\* the receivers suspended in n_unread.wait()
Blocked ==
  {p \in Receivers : rcv[p].pc = "wait" /\ rcv[p].block /\ n_unread = 0}

\* C20: every return of send_bytes and of receive_bytes from inside the
\* critical section (overflow failure, post failure, normal return) releases
\* the mutex, once, and no other step but acquire_lock() changes it; a
\* receiver waiting on the readiness semaphore does not hold the mutex, so a
\* sender at acquire_lock() can go on whenever the receivers are all blocked
\* and no other sender holds it; and, with every process scheduled fairly,
\* a held mutex is eventually free unless a process dies.
C20_MutexAlwaysReleased ==
  /\ [][/\ \A p \in Senders :
             snd'[p] # snd[p] =>
               lock' = lock
                         + (IF p \in Holders /\ snd'[p].pc = "idle"
                              THEN 1 ELSE 0)
                         - (IF snd[p].pc = "acquire" THEN 1 ELSE 0)
        /\ \A p \in Receivers :
             rcv'[p] # rcv[p] =>
               lock' = lock
                         + (IF p \in Holders /\ rcv'[p].pc = "idle"
                              THEN 1 ELSE 0)
                         - (IF rcv[p].pc = "acquire" THEN 1 ELSE 0)]_vars
  /\ [](\A p \in Senders :
          (/\ snd[p].pc = "acquire"
           /\ Blocked = Receivers
           /\ Holders \cap Senders = {})
          => lock = 1 /\ ENABLED SendAcquire(p))
  /\ (lock = 0) ~> (lock = 1 \/ SomeoneDied)

\* after a send failed at the post and a frame was received, both receivers
\* are suspended on the readiness semaphore and the sender is about to take
\* the free mutex
C20_Witness ==
  /\ Blocked = Receivers
  /\ \E p \in Senders : snd[p].pc = "acquire"
  /\ lock = 1
  /\ ~NoFailedPost
  /\ Len(received) > 0

====
